---- MODULE Spec2Model ----
(***************************************************************************)
(* Model of scripts/extract_clutter_patterns.py: the two array extractors  *)
(* (regular-expression matching over the text of a TypeScript document),   *)
(* the keyword categorizer, and the command-line run of main().            *)
(*                                                                         *)
(* Text is modelled by TLA+ strings; TLC evaluates Len, SubSeq and \o on   *)
(* them, so a character of s is SubSeq(s, i, i).                           *)
(***************************************************************************)
EXTENDS Integers, Sequences, FiniteSets, TLC

VARIABLES
    \* ---- one call of extract_array / extract_js_array_simple
    fn,             \* which extractor is called
    name,           \* its argument `name`
    content,        \* its argument `content`
    toks,           \* how the declaration body of `content` was composed
    form,           \* the declaration surface `content` was composed with
    epc,            \* position inside the extractor
    found,          \* whether re.search matched (`match` is not None)
    array_content,  \* match.group(1)
    path,           \* the branch taken at line 30: "single" / "multi"
    lines,          \* lines of array_content.split("\n") still to visit
    items,          \* the list being built / returned
    \* ---- one call of categorize_partial_selectors
    selectors,      \* its argument
    idx,            \* index of the selector the for loop visits next
    categories,     \* the dict built at lines 54-68, bucket -> list
    result,         \* the returned mapping, as a sequence of <<key, list>>
    cpc,            \* position inside the categorizer
    \* ---- one run of main()
    argv,           \* sys.argv[1:]
    fs,             \* the file system: path -> text, or NoFile
    mpc,            \* position inside main
    input_path,
    main_content,   \* main's local `content`
    scoring_content,
    partial_selectors,
    manifest,
    reads,          \* paths read with read_text, in order
    stdout,         \* documents written to standard output
    stderr,         \* lines written to the error stream
    exit_status     \* process exit status, or NoExit while running

extVars  == <<fn, name, content, toks, form, epc, found, array_content, path,
              lines, items>>
catVars  == <<selectors, idx, categories, result, cpc>>
mainVars == <<argv, fs, mpc, input_path, main_content, scoring_content,
              partial_selectors, manifest, reads, stdout, stderr, exit_status>>
vars     == <<extVars, catVars, mainVars>>

(***************************************************************************)
(* Bounds of the model.                                                    *)
(***************************************************************************)
MaxToks == 4
MaxSel == 3

(***************************************************************************)
(* Strings.                                                                *)
(***************************************************************************)
\* the character of s at position i ("" outside s)
Ch(s, i) == IF i >= 1 /\ i <= Len(s) THEN SubSeq(s, i, i) ELSE ""

StartsAt(s, i, p) ==
    /\ i >= 1
    /\ i + Len(p) - 1 <= Len(s)
    /\ SubSeq(s, i, i + Len(p) - 1) = p

\* Python's `p in s`
Contains(s, p) == \E i \in 1..(Len(s) - Len(p) + 1) : StartsAt(s, i, p)

\* Python's s.startswith(p)
StartsWith(s, p) == StartsAt(s, 1, p)

\* the characters \s matches and str.strip() removes
IsSpace(c) == c \in {" ", "\n", "\t", "\r"}

\* the character class ['\"]
IsQuote(c) == c \in {"'", "\""}

\* \s* from position i: the position after the longest run of white space
RECURSIVE SkipSpace(_, _)
SkipSpace(s, i) ==
    IF i <= Len(s) /\ IsSpace(Ch(s, i)) THEN SkipSpace(s, i + 1) ELSE i

\* the position of the last character of s[1..i] that is not white space,
\* 0 when there is none
RECURSIVE LastNonSpace(_, _)
LastNonSpace(s, i) ==
    IF i >= 1 /\ IsSpace(Ch(s, i)) THEN LastNonSpace(s, i - 1) ELSE i

\* Python's s.strip()
Strip(s) == SubSeq(s, SkipSpace(s, 1), LastNonSpace(s, Len(s)))

\* Python's s.count(c) for a one-character c
Count(s, c) == Cardinality({i \in 1..Len(s) : Ch(s, i) = c})

\* index of the first c at or after position p, 0 when there is none
IndexFrom(s, c, p) ==
    IF \E i \in p..Len(s) : Ch(s, i) = c
    THEN CHOOSE i \in p..Len(s) :
            Ch(s, i) = c /\ \A j \in p..(i - 1) : Ch(s, j) # c
    ELSE 0

\* Python's s.split("\n"); SplitFrom[p] is the pieces of s from position p on
SplitLines(s) ==
    LET SplitFrom[p \in 1..(Len(s) + 1)] ==
            LET k == IndexFrom(s, "\n", p)
            IN  IF k = 0 THEN <<SubSeq(s, p, Len(s))>>
                ELSE <<SubSeq(s, p, k - 1)>> \o SplitFrom[k + 1]
    IN  SplitFrom[1]

Min(S) == CHOOSE x \in S : \A y \in S : x <= y

\* the element of a one-element set: The({F(x) : x \in {e}}) is F(e), with e
\* evaluated once
The(S) == CHOOSE x \in S : TRUE

NoMatch == [found |-> FALSE, body |-> ""]

(***************************************************************************)
(* re.search for the three declaration patterns.  `name` is interpolated   *)
(* into the pattern; the names used are identifiers, which a pattern       *)
(* matches literally.                                                      *)
(***************************************************************************)
\* head \s* = \s* open  matched at position i: the position where the
\* captured group (.*?) starts, 0 when the head does not match at i
BodyStart(s, i, head, open) ==
    IF ~StartsAt(s, i, head) THEN 0
    ELSE LET j == SkipSpace(s, i + Len(head))
         IN  IF ~StartsAt(s, j, "=") THEN 0
             ELSE LET k == SkipSpace(s, j + 1)
                  IN  IF StartsAt(s, k, open) THEN k + Len(open) ELSE 0

\* (?:\.join\(['\"],?['\"]\))? at position p: the number of characters the
\* join call takes, 0 when there is none
JoinCall(s, p) ==
    IF ~(StartsAt(s, p, ".join(") /\ IsQuote(Ch(s, p + 6))) THEN 0
    ELSE IF IsQuote(Ch(s, p + 7)) /\ StartsAt(s, p + 8, ")") THEN 9
    ELSE IF StartsAt(s, p + 7, ",") /\ IsQuote(Ch(s, p + 8))
            /\ StartsAt(s, p + 9, ")") THEN 10
    ELSE 0

\* \](?:\.join\(['\"],?['\"]\))?;  at position e
CloseArray(s, e) ==
    /\ StartsAt(s, e, "]")
    /\ StartsAt(s, e + 1 + JoinCall(s, e + 1), ";")

\* \]\)  at position e
CloseSet(s, e) == StartsAt(s, e, "])")

\* \];  at position e
CloseSimple(s, e) == StartsAt(s, e, "];")

\* the text that closes the captured group, by pattern
CloseAt(kind, s, e) ==
    CASE kind = "array"  -> CloseArray(s, e)
      [] kind = "set"    -> CloseSet(s, e)
      [] kind = "simple" -> CloseSimple(s, e)

\* re.search(pattern, s, re.DOTALL): the leftmost position where the pattern
\* matches, and there the shortest body (.*?) that lets the rest match
Search(s, head, open, kind) ==
    LET Ends(i) == LET b == BodyStart(s, i, head, open)
                   IN  IF b = 0 THEN {} ELSE {e \in b..Len(s) : CloseAt(kind, s, e)}
        starts  == {i \in 1..Len(s) : Ends(i) # {}}
    IN  IF starts = {} THEN NoMatch
        ELSE LET i == Min(starts)
             IN  [found |-> TRUE,
                  body  |-> SubSeq(s, BodyStart(s, i, head, open), Min(Ends(i)) - 1)]

\* a variant of lines 18-23 whose pattern accepts any one-letter name
SearchArrayAnyName(nm, s) ==
    LET hits == {x \in {"X", "Y"} :
                    Search(s, "export const " \o x, "[", "array").found}
    IN  IF hits = {} THEN NoMatch
        ELSE Search(s, "export const " \o (CHOOSE x \in hits : TRUE), "[", "array")

\* lines 18-23: the array pattern, else the Set pattern
SearchArray(nm, s) ==
    LET m == Search(s, "export const " \o nm, "[", "array")
    IN  IF m.found THEN m
        ELSE Search(s, "export const " \o nm, "new Set([", "set")

\* lines 105-106
SearchSimple(nm, s) == Search(s, "const " \o nm, "[", "simple")

(***************************************************************************)
(* The single-line path, lines 30-35.                                      *)
(***************************************************************************)
\* a variant of line 30 that counts two quote characters as the limit
IsSingleLineTwo(ac) == ~Contains(Strip(ac), "\n") \/ Count(ac, "'") > 2

\* the condition of line 30
IsSingleLine(ac) == ~Contains(Strip(ac), "\n") \/ Count(ac, "'") > 4

\* re.findall(q ([^q]+) q, s): non-overlapping matches, left to right, with
\* FindAllFrom[p] the matches from position p on; a quote directly followed
\* by a quote opens no match
FindAll(s, q) ==
    LET FindAllFrom[p \in 1..(Len(s) + 1)] ==
            LET i == IndexFrom(s, q, p)
                j == IndexFrom(s, q, i + 1)
            IN  IF i = 0 \/ j = 0 THEN <<>>
                ELSE IF j = i + 1 THEN FindAllFrom[i + 1]
                ELSE <<SubSeq(s, i + 1, j - 1)>> \o FindAllFrom[j + 1]
    IN  FindAllFrom[1]

\* lines 32-35
SingleLineItems(ac) ==
    LET single == FindAll(ac, "'")
    IN  IF single = <<>> THEN FindAll(ac, "\"") ELSE single

(***************************************************************************)
(* The multi-line path, lines 38-49 and 111-119.                           *)
(***************************************************************************)
\* ,?\s*(?://.*)?$  from position p of a stripped line
LineTail(line, p) ==
    LET p1 == IF StartsAt(line, p, ",") THEN p + 1 ELSE p
        p2 == SkipSpace(line, p1)
    IN  p2 > Len(line) \/ StartsAt(line, p2, "//")

\* re.match(r"^['\"](.+?)['\"],?\s*(?://.*)?$", line): the positions a
\* closing quote may take; (.+?) takes the least
LineCloses(line) ==
    IF ~IsQuote(Ch(line, 1)) THEN {}
    ELSE {k \in 3..Len(line) : IsQuote(Ch(line, k)) /\ LineTail(line, k + 1)}

\* lines 40-48 for one raw line: the items it appends
LineItems(raw) ==
    The({ IF line = "" \/ StartsWith(line, "//") THEN <<>>
          ELSE IF LineCloses(line) = {} THEN <<>>
          ELSE <<SubSeq(line, 2, Min(LineCloses(line)) - 1)>>
          : line \in {Strip(raw)} })

\* lines 38-49: the items of the lines, in order
MultiLineItems(ls) ==
    LET ItemsFrom[i \in 1..(Len(ls) + 1)] ==
            IF i > Len(ls) THEN <<>> ELSE LineItems(ls[i]) \o ItemsFrom[i + 1]
    IN  ItemsFrom[1]

(***************************************************************************)
(* The two extractors as functions of their arguments.                     *)
(***************************************************************************)
\* lines 37-38 and 110-111: the items of a body read line by line
SplitItems(ac) == The({ MultiLineItems(ls) : ls \in {SplitLines(ac)} })

extract_array(nm, s) ==
    The({ IF ~m.found THEN <<>>
          ELSE IF IsSingleLine(m.body) THEN SingleLineItems(m.body)
          ELSE SplitItems(m.body)
          : m \in {SearchArray(nm, s)} })

extract_js_array_simple(nm, s) ==
    The({ IF ~m.found THEN <<>> ELSE SplitItems(m.body)
          : m \in {SearchSimple(nm, s)} })

(***************************************************************************)
(* Input documents for one extractor call.  A declaration body is composed *)
(* from a sequence of tokens: four string literals, a line break and a     *)
(* line comment; a literal that is not the last token is followed by a     *)
(* comma, and tokens on one line are separated by a space.                 *)
(***************************************************************************)
Literals == {"A", "E", "D", "R"}
Tokens   == Literals \cup {"N", "C"}

TokText(t) ==
    CASE t = "A" -> "'a'"
      [] t = "E" -> "''"
      [] t = "D" -> "\"b\""
      [] t = "R" -> "'[r=\"x\"]'"
      [] t = "N" -> "\n"
      [] t = "C" -> "// it's"

\* the text between the quotes of a literal token
LitValue(t) ==
    CASE t = "A" -> "a"
      [] t = "E" -> ""
      [] t = "D" -> "b"
      [] t = "R" -> "[r=\"x\"]"

RECURSIVE RenderFrom(_, _)
RenderFrom(ts, i) ==
    IF i > Len(ts) THEN ""
    ELSE (IF i > 1 /\ ts[i - 1] # "N" /\ ts[i] # "N" THEN " " ELSE "")
         \o TokText(ts[i])
         \o (IF ts[i] \in Literals /\ i < Len(ts) THEN "," ELSE "")
         \o RenderFrom(ts, i + 1)

Render(ts) == RenderFrom(ts, 1)

Forms == {"array", "join", "set", "simple"}

Decl(f, nm, body) ==
    CASE f = "array"  -> "export const " \o nm \o " = [" \o body \o "];"
      [] f = "join"   -> "export const " \o nm \o " = [" \o body \o "].join(',');"
      [] f = "set"    -> "export const " \o nm \o " = new Set([" \o body \o "]);"
      [] f = "simple" -> "const " \o nm \o " = [" \o body \o "];"

BoundedSeq(S, n) == UNION {[1..k -> S] : k \in 0..n}

NoFile == "<no file>"
NoExit == -1

ExtIdle ==
    /\ fn = "" /\ name = "" /\ content = "" /\ toks = <<>> /\ form = ""
    /\ epc = "idle" /\ found = FALSE /\ array_content = "" /\ path = ""
    /\ lines = <<>> /\ items = <<>>

CatIdle ==
    /\ selectors = <<>> /\ idx = 0 /\ categories = <<>> /\ result = <<>>
    /\ cpc = "idle"

MainIdle ==
    /\ argv = <<>> /\ fs = <<>> /\ mpc = "idle" /\ input_path = ""
    /\ main_content = "" /\ scoring_content = "" /\ partial_selectors = <<>>
    /\ manifest = <<>> /\ reads = <<>> /\ stdout = <<>> /\ stderr = <<>>
    /\ exit_status = NoExit

(***************************************************************************)
(* One call of extract_array or extract_js_array_simple, step by step.     *)
(***************************************************************************)
\* The calls made: each extractor on each declaration surface of X that it
\* can or cannot match, and on a name (Y) the document does not hold.
Calls ==
    {[fn |-> "extract_array", name |-> "X", form |-> f] : f \in Forms}
    \cup {[fn |-> "extract_js_array_simple", name |-> "X", form |-> f] :
              f \in {"simple", "array"}}
    \cup {[fn |-> "extract_array", name |-> "Y", form |-> "array"],
          [fn |-> "extract_js_array_simple", name |-> "Y", form |-> "simple"]}

ExtInit ==
    /\ \E c \in Calls : fn = c.fn /\ name = c.name /\ form = c.form
    /\ toks \in BoundedSeq(Tokens, MaxToks)
    /\ content = Decl(form, "X", Render(toks))
    /\ epc = "call"
    /\ found = FALSE /\ array_content = "" /\ path = ""
    /\ lines = <<>> /\ items = <<>>
    /\ CatIdle /\ MainIdle

\* lines 18-23 and 105-106: re.search
ExtSearch ==
    /\ epc = "call"
    /\ LET m == IF fn = "extract_array" THEN SearchArray(name, content)
                ELSE SearchSimple(name, content)
       IN  /\ found' = m.found
           /\ array_content' = m.body
    /\ epc' = "searched"
    /\ UNCHANGED <<fn, name, content, toks, form, path, lines, items>>
    /\ UNCHANGED <<catVars, mainVars>>

\* lines 24-25 and 107-108: no match, return []
ExtNotFound ==
    /\ epc = "searched" /\ ~found
    /\ items' = <<>>
    /\ epc' = "done"
    /\ UNCHANGED <<fn, name, content, toks, form, found, array_content, path, lines>>
    /\ UNCHANGED <<catVars, mainVars>>

\* lines 30-35: extract_array takes the single-line branch and returns
ExtSingleLine ==
    /\ epc = "searched" /\ found
    /\ fn = "extract_array"
    /\ IsSingleLine(array_content)
    /\ path' = "single"
    /\ items' = SingleLineItems(array_content)
    /\ epc' = "done"
    /\ UNCHANGED <<fn, name, content, toks, form, found, array_content, lines>>
    /\ UNCHANGED <<catVars, mainVars>>

\* lines 38-39 and 111-112: the line-by-line loop starts
ExtMultiLine ==
    /\ epc = "searched" /\ found
    /\ fn = "extract_array" => ~IsSingleLine(array_content)
    /\ path' = "multi"
    /\ items' = <<>>
    /\ lines' = SplitLines(array_content)
    /\ epc' = "loop"
    /\ UNCHANGED <<fn, name, content, toks, form, found, array_content>>
    /\ UNCHANGED <<catVars, mainVars>>

\* lines 40-48 and 113-118: one iteration of the loop
ExtLine ==
    /\ epc = "loop" /\ lines # <<>>
    /\ items' = items \o LineItems(Head(lines))
    /\ lines' = Tail(lines)
    /\ UNCHANGED <<fn, name, content, toks, form, epc, found, array_content, path>>
    /\ UNCHANGED <<catVars, mainVars>>

\* lines 49 and 119: return items
ExtReturn ==
    /\ epc = "loop" /\ lines = <<>>
    /\ epc' = "done"
    /\ UNCHANGED <<fn, name, content, toks, form, found, array_content, path,
                   lines, items>>
    /\ UNCHANGED <<catVars, mainVars>>

ExtNext ==
    \/ ExtSearch
    \/ ExtNotFound
    \/ ExtSingleLine
    \/ ExtMultiLine
    \/ ExtLine
    \/ ExtReturn

SpecExt == ExtInit /\ [][ExtNext]_vars

(***************************************************************************)
(* categorize_partial_selectors, lines 52-100.                             *)
(***************************************************************************)
\* the keys of `categories`, in the order lines 54-68 insert them
CategoryNames ==
    <<"ads", "navigation", "header_footer", "sidebar", "social", "comments",
      "auth", "newsletter", "article_meta", "post_meta", "author", "related",
      "misc">>

\* a variant of the key order with navigation tested before ads
KeywordOrderNavFirst ==
    <<"navigation", "ads", "header_footer", "sidebar", "social", "comments",
      "auth", "newsletter", "article_meta", "post_meta", "author", "related">>

\* the keys of `category_keywords`, in the order lines 71-84 insert them
KeywordOrder ==
    <<"ads", "navigation", "header_footer", "sidebar", "social", "comments",
      "auth", "newsletter", "article_meta", "post_meta", "author", "related">>

\* lines 71-84
category_keywords(c) ==
    CASE c = "ads"           -> {"ad", "advert", "promo", "sponsor", "banner"}
      [] c = "navigation"    -> {"nav", "menu", "breadcrumb", "pagination",
                                 "skip", "jump"}
      [] c = "header_footer" -> {"header", "footer", "copyright", "masthead",
                                 "topbar"}
      [] c = "sidebar"       -> {"sidebar", "widget", "aside", "rail"}
      [] c = "social"        -> {"social", "share", "facebook", "twitter",
                                 "instagram", "rss"}
      [] c = "comments"      -> {"comment", "disqus", "discuss", "feedback",
                                 "response"}
      [] c = "auth"          -> {"login", "sign", "register", "access-wall",
                                 "paywall", "gated"}
      [] c = "newsletter"    -> {"newsletter", "subscribe", "signup", "email",
                                 "donate"}
      [] c = "article_meta"  -> {"article-", "article_", "article__"}
      [] c = "post_meta"     -> {"post-", "post_", "entry-", "byline",
                                 "dateline", "timestamp", "pub"}
      [] c = "author"        -> {"author", "bio", "avatar", "profile",
                                 "contributor"}
      [] c = "related"       -> {"related", "recommend", "more-", "read-next",
                                 "keep-reading", "popular", "trending",
                                 "recent"}

Upper == "ABCDEFGHIJKLMNOPQRSTUVWXYZ"
LowerLetters == "abcdefghijklmnopqrstuvwxyz"

LowerChar(c) ==
    LET k == IndexFrom(Upper, c, 1)
    IN  IF k = 0 THEN c ELSE Ch(LowerLetters, k)

\* Python's s.lower() on the letters A-Z: s from position i on
RECURSIVE LowerFrom(_, _)
LowerFrom(s, i) ==
    IF i > Len(s) THEN ""
    ELSE LowerChar(Ch(s, i)) \o LowerFrom(s, i + 1)

Lower(s) == LowerFrom(s, 1)

\* a variant of line 91 that compares whole words instead of substrings
AnyKeywordWhole(c, low) == low \in category_keywords(c)

\* line 91: any(kw in sel_lower for kw in keywords)
AnyKeyword(c, low) ==
    \E kw \in category_keywords(c) : Contains(low, kw)

\* lines 87-97 for one selector: the key of the list it is appended to
RECURSIVE CategoryFrom(_, _)
CategoryFrom(low, k) ==
    IF k > Len(KeywordOrder) THEN "misc"
    ELSE IF AnyKeyword(KeywordOrder[k], low) THEN KeywordOrder[k]
    ELSE CategoryFrom(low, k + 1)

\* Selector strings the categorizer is called with: one or more for every
\* bucket, mixed case, and strings that hold keywords of several buckets.
Selectors ==
    {"NavAd", "header", "masthead", "breadcrumb", "read-next", "keep-reading",
     "signup", "menu", "footer", "widget", "Share", "disqus", "login",
     "email", "article-x", "post-x", "bio", "popular", "x"}

\* sel_lower of line 87, tabulated once for the selectors above
LowerTable == [s \in Selectors |-> Lower(s)]
sel_lower(selector) ==
    IF selector \in Selectors THEN LowerTable[selector] ELSE Lower(selector)

\* the outcome of lines 87-97, tabulated once for the selectors above
CategoryTable == [s \in Selectors |-> CategoryFrom(sel_lower(s), 1)]
CategoryOf(selector) ==
    IF selector \in Selectors THEN CategoryTable[selector]
    ELSE CategoryFrom(sel_lower(selector), 1)

\* lines 54-68
EmptyCategories == [k \in 1..Len(CategoryNames) |-> <<CategoryNames[k], <<>>>>]

\* variants of the append of lines 92 and 97: one that skips a string the
\* list already holds, one that inserts at the front
AppendToOnce(cats, c, selector) ==
    [k \in 1..Len(cats) |->
        IF cats[k][1] = c /\ \A j \in 1..Len(cats[k][2]) : cats[k][2][j] # selector
        THEN <<c, Append(cats[k][2], selector)>> ELSE cats[k]]

AppendToFront(cats, c, selector) ==
    [k \in 1..Len(cats) |->
        IF cats[k][1] = c THEN <<c, <<selector>> \o cats[k][2]>> ELSE cats[k]]

\* lines 92 and 97: categories[c].append(selector)
AppendTo(cats, c, selector) ==
    [k \in 1..Len(cats) |->
        IF cats[k][1] = c THEN <<c, Append(cats[k][2], selector)>> ELSE cats[k]]

\* line 100: {k: v for k, v in categories.items() if v}
NonEmpty(entry) == entry[2] # <<>>
DropEmpty(cats) == SelectSeq(cats, NonEmpty)

RECURSIVE CategorizeFrom(_, _, _)
CategorizeFrom(sels, i, cats) ==
    IF i > Len(sels) THEN cats
    ELSE CategorizeFrom(sels, i + 1, AppendTo(cats, CategoryOf(sels[i]), sels[i]))

categorize_partial_selectors(sels) ==
    DropEmpty(CategorizeFrom(sels, 1, EmptyCategories))

CatInit ==
    /\ selectors \in BoundedSeq(Selectors, MaxSel)
    /\ idx = 1
    /\ categories = EmptyCategories
    /\ result = <<>>
    /\ cpc = "loop"
    /\ ExtIdle /\ MainIdle

\* lines 86-94: the selector matches a keyword list; first match wins
CatMatch ==
    /\ cpc = "loop" /\ idx <= Len(selectors)
    /\ CategoryOf(selectors[idx]) # "misc"
    /\ categories' = AppendTo(categories, CategoryOf(selectors[idx]), selectors[idx])
    /\ idx' = idx + 1
    /\ UNCHANGED <<selectors, result, cpc>>
    /\ UNCHANGED <<extVars, mainVars>>

\* lines 96-97: no keyword list matches
CatMisc ==
    /\ cpc = "loop" /\ idx <= Len(selectors)
    /\ CategoryOf(selectors[idx]) = "misc"
    /\ categories' = AppendTo(categories, "misc", selectors[idx])
    /\ idx' = idx + 1
    /\ UNCHANGED <<selectors, result, cpc>>
    /\ UNCHANGED <<extVars, mainVars>>

\* line 100: the loop is over; return the non-empty categories
CatReturn ==
    /\ cpc = "loop" /\ idx > Len(selectors)
    /\ result' = DropEmpty(categories)
    /\ cpc' = "done"
    /\ UNCHANGED <<selectors, idx, categories>>
    /\ UNCHANGED <<extVars, mainVars>>

CatNext ==
    \/ CatMatch
    \/ CatMisc
    \/ CatReturn

SpecCat == CatInit /\ [][CatNext]_vars

(***************************************************************************)
(* Properties of categorize_partial_selectors (checked under SpecCat).     *)
(***************************************************************************)
\* all strings of the returned mapping, bucket after bucket
RECURSIVE Flatten(_)
Flatten(res) ==
    IF res = <<>> THEN <<>> ELSE Head(res)[2] \o Flatten(Tail(res))

Occurrences(seq, x) == Cardinality({i \in 1..Len(seq) : seq[i] = x})

\* C1: the returned buckets partition the input: their sizes sum to the
\* length of the input, they hold no string that is not in the input, and
\* every string occurs in them as often as it occurs in the input.
C1_TotalPartition ==
    cpc = "done" =>
        LET out == Flatten(result)
        IN  /\ Len(out) = Len(selectors)
            /\ \A j \in 1..Len(out) : \E i \in 1..Len(selectors) : out[j] = selectors[i]
            /\ \A x \in Selectors : Occurrences(out, x) = Occurrences(selectors, x)
            /\ \A j, k \in 1..Len(result) : result[j][1] = result[k][1] => j = k

C1_Witness ==
    /\ cpc = "done"
    /\ Len(selectors) >= 2
    /\ \E i, j \in 1..Len(selectors) : i < j /\ selectors[i] = selectors[j]
    /\ \E i, j \in 1..Len(selectors) : selectors[i] # selectors[j]

\* the bucket order the claim states
ClaimOrder ==
    <<"ads", "navigation", "header_footer", "sidebar", "social", "comments",
      "auth", "newsletter", "article_meta", "post_meta", "author", "related">>

\* the bucket the claim assigns: the earliest of ClaimOrder with a keyword
\* that is a substring of the lower-cased string, misc when there is none
ClaimBucket ==
    [x \in Selectors |->
        LET hits == {k \in 1..Len(ClaimOrder) :
                        \E kw \in category_keywords(ClaimOrder[k]) :
                            Contains(Lower(x), kw)}
        IN  IF hits = {} THEN "misc" ELSE ClaimOrder[Min(hits)]]

\* C2: first match wins: every string is in the earliest bucket of the fixed
\* order one of whose keywords occurs in the lower-cased string, and in misc
\* exactly when no keyword occurs; a string with "nav" and "ad" is in ads.
C2_FirstMatchWins ==
    cpc = "done" =>
        /\ \A k \in 1..Len(result) : \A j \in 1..Len(result[k][2]) :
              result[k][1] = ClaimBucket[result[k][2][j]]
        /\ \A i \in 1..Len(selectors) :
              (Contains(sel_lower(selectors[i]), "nav")
                 /\ Contains(sel_lower(selectors[i]), "ad"))
              => \E k \in 1..Len(result) :
                    /\ result[k][1] = "ads"
                    /\ \E j \in 1..Len(result[k][2]) : result[k][2][j] = selectors[i]

C2_Witness ==
    /\ cpc = "done"
    /\ \E k \in 1..Len(result) :
          result[k][1] = "ads" /\ \E j \in 1..Len(result[k][2]) : result[k][2][j] = "NavAd"
    /\ \E k \in 1..Len(result) : result[k][1] = "misc"
    /\ \E k \in 1..Len(result) : result[k][1] = "navigation"

\* the declared bucket order of the claim, misc last
ClaimBuckets == ClaimOrder \o <<"misc">>

PositionIn(seq, x) == Min({k \in 1..Len(seq) : seq[k] = x})

\* sub is obtained from seq by deleting elements
RECURSIVE IsSubsequence(_, _)
IsSubsequence(sub, seq) ==
    IF sub = <<>> THEN TRUE
    ELSE IF seq = <<>> THEN FALSE
    ELSE IF Head(sub) = Head(seq) THEN IsSubsequence(Tail(sub), Tail(seq))
    ELSE IsSubsequence(sub, Tail(seq))

\* C8: the returned mapping lists its buckets in the declared order, holds
\* no empty bucket, and each bucket keeps the input's relative order.
C8_OrderedNonEmpty ==
    cpc = "done" =>
        /\ \A k \in 1..Len(result) :
              /\ \E b \in 1..Len(ClaimBuckets) : ClaimBuckets[b] = result[k][1]
              /\ result[k][2] # <<>>
              /\ IsSubsequence(result[k][2], selectors)
        /\ \A j, k \in 1..Len(result) :
              j < k => PositionIn(ClaimBuckets, result[j][1])
                         < PositionIn(ClaimBuckets, result[k][1])

C8_Witness ==
    /\ cpc = "done"
    /\ Len(result) >= 2
    /\ Len(result) < Len(ClaimBuckets)
    /\ \E k \in 1..Len(result) :
          Len(result[k][2]) >= 2 /\ result[k][2][1] # result[k][2][2]

\* the keywords the claim names as shadowed by "ad"
ShadowedByAd == {"header", "masthead", "breadcrumb", "read-next", "keep-reading"}

HoldsShadowed == [x \in Selectors |-> \E kw \in ShadowedByAd : Contains(Lower(x), kw)]

HoldsOtherNewsletter ==
    [x \in Selectors |->
        \E kw \in {"newsletter", "subscribe", "email", "donate"} : Contains(Lower(x), kw)]

\* C10: a string that holds "header", "masthead", "breadcrumb", "read-next"
\* or "keep-reading" is in ads (not header_footer, navigation or related),
\* and every string of newsletter holds a newsletter keyword other than
\* "signup".
C10_KeywordShadowing ==
    cpc = "done" =>
        \A k \in 1..Len(result) : \A j \in 1..Len(result[k][2]) :
            /\ HoldsShadowed[result[k][2][j]] => result[k][1] = "ads"
            /\ result[k][1] = "newsletter" => HoldsOtherNewsletter[result[k][2][j]]

C10_Witness ==
    /\ cpc = "done"
    /\ \E i \in 1..Len(selectors) : selectors[i] = "keep-reading"
    /\ \E i \in 1..Len(selectors) : selectors[i] = "signup"
    /\ \E k \in 1..Len(result) : result[k][1] = "newsletter"

(***************************************************************************)
(* Properties of the extractors (checked under SpecExt).                   *)
(***************************************************************************)
QuoteChars(ac) == Cardinality({i \in 1..Len(ac) : IsQuote(Ch(ac, i))})

\* C5: a name that does not occur in the text gives an empty sequence from
\* both extractors; more generally the result is empty whenever no
\* declaration is found or the captured body holds no quote character.
C5_AbsentNameEmpty ==
    epc = "done" =>
        /\ ~Contains(content, name) => ~found /\ items = <<>>
        /\ ~found => items = <<>>
        /\ (found /\ QuoteChars(array_content) = 0) => items = <<>>

C5_Witness ==
    /\ epc = "done"
    /\ ~Contains(content, name)
    /\ form = "array"
    /\ fn = "extract_array"
    /\ Len(toks) >= 3
    /\ \A i \in 1..Len(toks) : toks[i] = "A"

\* the literals of the body, left to right
RECURSIVE LiteralValues(_)
LiteralValues(ts) ==
    IF ts = <<>> THEN <<>>
    ELSE (IF Head(ts) \in Literals THEN <<LitValue(Head(ts))>> ELSE <<>>)
         \o LiteralValues(Tail(ts))

SingleQuoted == {"A", "E", "R"}

\* C6: single-line path of extract_array: a body without line breaks that
\* holds three or more single-quoted literals gives exactly the quoted
\* literals of the body, in order, none dropped, merged or added.
C6_SingleLineAllLiterals ==
    ( /\ epc = "done"
      /\ fn = "extract_array" /\ found
      /\ \A i \in 1..Len(toks) : toks[i] \in Literals
      /\ Cardinality({i \in 1..Len(toks) : toks[i] \in SingleQuoted}) >= 3 )
    => items = LiteralValues(toks)

\* the token lines of a body: the tokens between line breaks
RECURSIVE TokenLines(_, _)
TokenLines(ts, cur) ==
    IF ts = <<>> THEN <<cur>>
    ELSE IF Head(ts) = "N" THEN <<cur>> \o TokenLines(Tail(ts), <<>>)
    ELSE TokenLines(Tail(ts), Append(cur, Head(ts)))

\* what a line of whole-line-literal shape contributes according to the
\* claim: the text between the quotes of its one literal; any other line
\* contributes nothing
ClaimLineItems(tl) ==
    IF /\ Len(tl) \in {1, 2}
       /\ tl[1] \in Literals
       /\ Len(tl) = 2 => tl[2] = "C"
    THEN <<LitValue(tl[1])>>
    ELSE <<>>

RECURSIVE ClaimMultiLine(_)
ClaimMultiLine(tls) ==
    IF tls = <<>> THEN <<>>
    ELSE ClaimLineItems(Head(tls)) \o ClaimMultiLine(Tail(tls))

\* C7: multi-line path of both extractors: a line contributes an item only
\* when it is exactly one quoted literal, optionally followed by a comma
\* and/or a line comment, and the item is the text between the quotes;
\* every other line, such as one with two literals, contributes nothing.
\* (Stated for bodies whose literals are not empty.)
C7_WholeLineLiteralOnly ==
    ( /\ epc = "done" /\ found /\ path = "multi"
      /\ \A i \in 1..Len(toks) : toks[i] # "E" )
    => items = ClaimMultiLine(TokenLines(toks, <<>>))

\* a line break with a character that is not white space on either side
InnerBreak(ac) ==
    \E j \in 1..Len(ac) :
        /\ Ch(ac, j) = "\n"
        /\ \E i \in 1..(j - 1) : ~IsSpace(Ch(ac, i))
        /\ \E k \in (j + 1)..Len(ac) : ~IsSpace(Ch(ac, k))

SingleQuoteChars(ac) == Cardinality({i \in 1..Len(ac) : Ch(ac, i) = "'"})

\* C9 as stated: the single-line path is taken exactly when the body holds
\* no line break or more than two single-quote characters.  (Stated for
\* bodies that neither begin nor end with white space.)
C9_AsStated ==
    (fn = "extract_array" /\ path # "" /\ Strip(array_content) = array_content)
    => (path = "single"
        <=> (~Contains(array_content, "\n") \/ SingleQuoteChars(array_content) > 2))

\* C9 amended: the single-line path is taken exactly when the body, with
\* leading and trailing white space stripped, holds no line break, or the
\* body holds more than four single-quote characters; the multi-line path
\* otherwise.  A single-line body of double-quoted literals only gives
\* those literals.
C9_FormatDecision ==
    (fn = "extract_array" /\ path # "")
    => /\ path = "single"
            <=> (~InnerBreak(array_content) \/ SingleQuoteChars(array_content) > 4)
       /\ (epc = "done" /\ path = "single" /\ \A i \in 1..Len(toks) : toks[i] = "D")
            => items = LiteralValues(toks)

C9_Witness ==
    /\ epc = "done"
    /\ fn = "extract_array"
    /\ path = "multi"
    /\ SingleQuoteChars(array_content) \in {3, 4}
    /\ items # <<>>

(***************************************************************************)
(* main(), lines 122-180, and the files it runs on.                        *)
(***************************************************************************)
\* line 125
DefaultPath == "tmp/defuddle/src/constants.ts"

\* a path given as sys.argv[1]
ArgPath == "in/constants.ts"

\* index of the last "/" of p, 0 when there is none
LastSlash(p) ==
    LET at == {i \in 1..Len(p) : Ch(p, i) = "/"}
    IN  IF at = {} THEN 0 ELSE CHOOSE i \in at : \A j \in at : j <= i

\* line 136: input_path.parent / "scoring.ts"
ScoringPath(p) ==
    IF LastSlash(p) = 0 THEN "scoring.ts"
    ELSE SubSeq(p, 1, LastSlash(p)) \o "scoring.ts"

Paths == {DefaultPath, ArgPath, ScoringPath(DefaultPath), ScoringPath(ArgPath)}

\* primary documents: the one-declaration document, a document with the
\* multi-line, single-line, Set and join surfaces, and an empty document
EntryOnlyDoc == "export const ENTRY_POINT_ELEMENTS = ['article', 'main'];"

FullDoc ==
    "export const PARTIAL_SELECTORS = [\n  'NavAd',\n  'x',\n  'header', // top\n];\n"
    \o "export const TEST_ATTRIBUTES = ['class', 'id', 'data-x'];\n"
    \o "export const BLOCK_ELEMENTS = new Set(['div', 'p']);\n"
    \o "export const EXACT_SELECTORS = ['nav', 'aside'].join(',');\n"
    \o "export const FOOTNOTE_LIST_SELECTORS = [\n  'ol.footnotes',\n  \"div[role='note']\",\n].join(',');\n"

PrimaryDocs == {EntryOnlyDoc, FullDoc, ""}

ScoringDoc ==
    "const contentIndicators = [\n  'content',\n  'article',\n];\n"
    \o "const nonContentPatterns = [\n  'ad', // ads\n];\n"

ScoringDocs == {ScoringDoc, ""}

\* Path.exists()
Exists(p) == fs[p] # NoFile

\* lines 144-178
Manifest(doc, sdoc, partial) ==
    ("$comment" :>
        "Web clutter patterns extracted from Defuddle (https://github.com/kepano/defuddle)")
    @@ ("content_selectors" :>
        (("$comment" :> "Selectors for finding main content, in priority order")
         @@ ("selectors" :> extract_array("ENTRY_POINT_ELEMENTS", doc))))
    @@ ("remove" :>
        (("$comment" :> "Elements to remove from the page")
         @@ ("exact_selectors" :> extract_array("EXACT_SELECTORS", doc))
         @@ ("partial_patterns" :>
             (("$comment" :>
                 "Substring patterns matched against class/id/data-* attributes (case-insensitive)")
              @@ ("check_attributes" :> extract_array("TEST_ATTRIBUTES", doc))
              @@ ("patterns" :> categorize_partial_selectors(partial))))))
    @@ ("preserve" :>
        (("$comment" :> "Elements to preserve during content extraction")
         @@ ("block_elements" :> extract_array("BLOCK_ELEMENTS", doc))
         @@ ("preserve_elements" :> extract_array("PRESERVE_ELEMENTS", doc))
         @@ ("inline_elements" :> extract_array("INLINE_ELEMENTS", doc))
         @@ ("allowed_empty" :> extract_array("ALLOWED_EMPTY_ELEMENTS", doc))
         @@ ("allowed_attributes" :> extract_array("ALLOWED_ATTRIBUTES", doc))))
    @@ ("footnotes" :>
        (("$comment" :> "Selectors for identifying footnotes and citations")
         @@ ("inline_references" :> extract_array("FOOTNOTE_INLINE_REFERENCES", doc))
         @@ ("list_selectors" :> extract_array("FOOTNOTE_LIST_SELECTORS", doc))))
    @@ ("scoring" :>
        (("$comment" :> "Patterns used for content scoring (from scoring.ts)")
         @@ ("content_indicators" :> extract_js_array_simple("contentIndicators", sdoc))
         @@ ("navigation_indicators" :>
                extract_js_array_simple("navigationIndicators", sdoc))
         @@ ("non_content_patterns" :>
                extract_js_array_simple("nonContentPatterns", sdoc))))

\* line 142 and lines 144-178, tabulated once for the documents above
PartialTable == [d \in PrimaryDocs |-> extract_array("PARTIAL_SELECTORS", d)]

ManifestTable ==
    [d \in PrimaryDocs, sd \in ScoringDocs, ps \in {PartialTable[x] : x \in PrimaryDocs}
        |-> Manifest(d, sd, ps)]

PartialOf(doc) ==
    IF doc \in PrimaryDocs THEN PartialTable[doc]
    ELSE extract_array("PARTIAL_SELECTORS", doc)

ManifestOf(doc, sdoc, partial) ==
    IF <<doc, sdoc, partial>> \in DOMAIN ManifestTable
    THEN ManifestTable[doc, sdoc, partial]
    ELSE Manifest(doc, sdoc, partial)

NoManifest == <<>>

MainInit ==
    /\ argv \in {<<>>, <<ArgPath>>}
    /\ fs \in [Paths -> PrimaryDocs \cup ScoringDocs \cup {NoFile}]
    /\ \A p \in {DefaultPath, ArgPath} :
          /\ fs[p] \in PrimaryDocs \cup {NoFile}
          /\ fs[ScoringPath(p)] \in ScoringDocs \cup {NoFile}
    /\ mpc = "start"
    /\ input_path = ""
    /\ main_content = "" /\ scoring_content = ""
    /\ partial_selectors = <<>>
    /\ manifest = NoManifest
    /\ reads = <<>> /\ stdout = <<>> /\ stderr = <<>>
    /\ exit_status = NoExit
    /\ ExtIdle /\ CatIdle

\* lines 123-127: the argument, or the default path
MainResolve ==
    /\ mpc = "start"
    /\ input_path' = IF Len(argv) + 1 < 2 THEN DefaultPath ELSE argv[1]
    /\ mpc' = "check"
    /\ UNCHANGED <<argv, fs, main_content, scoring_content, partial_selectors,
                   manifest, reads, stdout, stderr, exit_status>>
    /\ UNCHANGED <<extVars, catVars>>

\* a variant of lines 129-131 that reports the missing file and goes on
MainMissingGoesOn ==
    /\ mpc = "check" /\ ~Exists(input_path)
    /\ stderr' = Append(stderr, "Error: " \o input_path \o " not found")
    /\ main_content' = ""
    /\ mpc' = "scoring"
    /\ UNCHANGED <<argv, fs, input_path, scoring_content, partial_selectors,
                   manifest, reads, stdout, exit_status>>
    /\ UNCHANGED <<extVars, catVars>>

\* lines 129-131: the input file is missing: diagnostic, sys.exit(1)
MainMissing ==
    /\ mpc = "check" /\ ~Exists(input_path)
    /\ stderr' = Append(stderr, "Error: " \o input_path \o " not found")
    /\ exit_status' = 1
    /\ mpc' = "exited"
    /\ UNCHANGED <<argv, fs, input_path, main_content, scoring_content,
                   partial_selectors, manifest, reads, stdout>>
    /\ UNCHANGED <<extVars, catVars>>

\* line 133: content = input_path.read_text()
MainReadInput ==
    /\ mpc = "check" /\ Exists(input_path)
    /\ main_content' = fs[input_path]
    /\ reads' = Append(reads, input_path)
    /\ mpc' = "scoring"
    /\ UNCHANGED <<argv, fs, input_path, scoring_content, partial_selectors,
                   manifest, stdout, stderr, exit_status>>
    /\ UNCHANGED <<extVars, catVars>>

\* lines 136-139: scoring.ts exists and is read
MainReadScoring ==
    /\ mpc = "scoring" /\ Exists(ScoringPath(input_path))
    /\ scoring_content' = fs[ScoringPath(input_path)]
    /\ reads' = Append(reads, ScoringPath(input_path))
    /\ mpc' = "extract"
    /\ UNCHANGED <<argv, fs, input_path, main_content, partial_selectors,
                   manifest, stdout, stderr, exit_status>>
    /\ UNCHANGED <<extVars, catVars>>

\* a variant of lines 136-138 that treats a missing scoring.ts as an error
MainNoScoringFails ==
    /\ mpc = "scoring" /\ ~Exists(ScoringPath(input_path))
    /\ stderr' = Append(stderr, "Error: " \o ScoringPath(input_path) \o " not found")
    /\ exit_status' = 1
    /\ mpc' = "exited"
    /\ UNCHANGED <<argv, fs, input_path, main_content, scoring_content,
                   partial_selectors, manifest, reads, stdout>>
    /\ UNCHANGED <<extVars, catVars>>

\* lines 136-138: scoring.ts does not exist: scoring_content stays ""
MainNoScoring ==
    /\ mpc = "scoring" /\ ~Exists(ScoringPath(input_path))
    /\ scoring_content' = ""
    /\ mpc' = "extract"
    /\ UNCHANGED <<argv, fs, input_path, main_content, partial_selectors,
                   manifest, reads, stdout, stderr, exit_status>>
    /\ UNCHANGED <<extVars, catVars>>

\* line 142
MainExtractPartial ==
    /\ mpc = "extract"
    /\ partial_selectors' = PartialOf(main_content)
    /\ mpc' = "build"
    /\ UNCHANGED <<argv, fs, input_path, main_content, scoring_content,
                   manifest, reads, stdout, stderr, exit_status>>
    /\ UNCHANGED <<extVars, catVars>>

\* lines 144-178
MainBuild ==
    /\ mpc = "build"
    /\ manifest' = ManifestOf(main_content, scoring_content, partial_selectors)
    /\ mpc' = "print"
    /\ UNCHANGED <<argv, fs, input_path, main_content, scoring_content,
                   partial_selectors, reads, stdout, stderr, exit_status>>
    /\ UNCHANGED <<extVars, catVars>>

\* line 180: the manifest is written to standard output
MainPrint ==
    /\ mpc = "print"
    /\ stdout' = Append(stdout, manifest)
    /\ mpc' = "return"
    /\ UNCHANGED <<argv, fs, input_path, main_content, scoring_content,
                   partial_selectors, manifest, reads, stderr, exit_status>>
    /\ UNCHANGED <<extVars, catVars>>

\* lines 183-184: main returns and the process ends with status 0
MainExit ==
    /\ mpc = "return"
    /\ exit_status' = 0
    /\ mpc' = "exited"
    /\ UNCHANGED <<argv, fs, input_path, main_content, scoring_content,
                   partial_selectors, manifest, reads, stdout, stderr>>
    /\ UNCHANGED <<extVars, catVars>>

Next ==
    \/ MainResolve
    \/ MainMissing
    \/ MainReadInput
    \/ MainReadScoring
    \/ MainNoScoring
    \/ MainExtractPartial
    \/ MainBuild
    \/ MainPrint
    \/ MainExit

Init == MainInit

Spec == Init /\ [][Next]_vars

\* the run is one sequential process: it keeps taking its next step
SpecLive == Spec /\ WF_vars(Next)

(***************************************************************************)
(* Properties of a run of main (checked under Spec and SpecLive).          *)
(***************************************************************************)
\* the resolved primary input path: the argument, or the default path
Resolved == IF argv = <<>> THEN DefaultPath ELSE argv[1]

\* C3: when the resolved input path does not exist the run writes a
\* diagnostic to the error stream and exits with status 1 before reading
\* any file, and never writes to standard output; in every run the manifest
\* is written at most once and only after it has been built completely.
C3_MissingInputNoOutput ==
    /\ fs[Resolved] = NoFile =>
          /\ stdout = <<>>
          /\ reads = <<>>
          /\ mpc \in {"start", "check", "exited"}
          /\ mpc = "exited" => exit_status = 1 /\ Len(stderr) = 1
    /\ Len(stdout) <= 1
    /\ stdout # <<>> =>
          /\ mpc \in {"return", "exited"}
          /\ stdout[1] = Manifest(fs[Resolved],
                                  IF fs[ScoringPath(Resolved)] = NoFile THEN ""
                                  ELSE fs[ScoringPath(Resolved)],
                                  partial_selectors)

C3_Witness ==
    /\ mpc = "exited"
    /\ argv = <<ArgPath>>
    /\ fs[ArgPath] = NoFile
    /\ fs[DefaultPath] = FullDoc
    /\ exit_status = 1

\* the sequence fields of the manifest that come from the primary document
PrimaryFields(m) ==
    [n \in {"ENTRY_POINT_ELEMENTS", "EXACT_SELECTORS", "TEST_ATTRIBUTES",
            "PARTIAL_SELECTORS", "BLOCK_ELEMENTS", "PRESERVE_ELEMENTS",
            "INLINE_ELEMENTS", "ALLOWED_EMPTY_ELEMENTS", "ALLOWED_ATTRIBUTES",
            "FOOTNOTE_INLINE_REFERENCES", "FOOTNOTE_LIST_SELECTORS"} |->
      CASE n = "ENTRY_POINT_ELEMENTS" -> m["content_selectors"]["selectors"]
        [] n = "EXACT_SELECTORS" -> m["remove"]["exact_selectors"]
        [] n = "TEST_ATTRIBUTES" -> m["remove"]["partial_patterns"]["check_attributes"]
        [] n = "PARTIAL_SELECTORS" -> m["remove"]["partial_patterns"]["patterns"]
        [] n = "BLOCK_ELEMENTS" -> m["preserve"]["block_elements"]
        [] n = "PRESERVE_ELEMENTS" -> m["preserve"]["preserve_elements"]
        [] n = "INLINE_ELEMENTS" -> m["preserve"]["inline_elements"]
        [] n = "ALLOWED_EMPTY_ELEMENTS" -> m["preserve"]["allowed_empty"]
        [] n = "ALLOWED_ATTRIBUTES" -> m["preserve"]["allowed_attributes"]
        [] n = "FOOTNOTE_INLINE_REFERENCES" -> m["footnotes"]["inline_references"]
        [] n = "FOOTNOTE_LIST_SELECTORS" -> m["footnotes"]["list_selectors"]]

\* the sequence fields that come from scoring.ts
ScoringFields(m) ==
    [n \in {"contentIndicators", "navigationIndicators", "nonContentPatterns"} |->
      CASE n = "contentIndicators" -> m["scoring"]["content_indicators"]
        [] n = "navigationIndicators" -> m["scoring"]["navigation_indicators"]
        [] n = "nonContentPatterns" -> m["scoring"]["non_content_patterns"]]

\* every fixed key of the manifest, at every level
HasFixedKeys(m) ==
    /\ DOMAIN m = {"$comment", "content_selectors", "remove", "preserve",
                   "footnotes", "scoring"}
    /\ DOMAIN m["content_selectors"] = {"$comment", "selectors"}
    /\ DOMAIN m["remove"] = {"$comment", "exact_selectors", "partial_patterns"}
    /\ DOMAIN m["remove"]["partial_patterns"]
         = {"$comment", "check_attributes", "patterns"}
    /\ DOMAIN m["preserve"]
         = {"$comment", "block_elements", "preserve_elements", "inline_elements",
            "allowed_empty", "allowed_attributes"}
    /\ DOMAIN m["footnotes"] = {"$comment", "inline_references", "list_selectors"}
    /\ DOMAIN m["scoring"]
         = {"$comment", "content_indicators", "navigation_indicators",
            "non_content_patterns"}

\* what C4 says of a finished run whose primary input file exists
C4_Finished ==
    (mpc = "exited" /\ fs[Resolved] # NoFile) =>
        /\ exit_status = 0
        /\ Len(stdout) = 1
        /\ stderr = <<>>
        /\ LET m  == stdout[1]
               sp == ScoringPath(Resolved)
           IN  /\ HasFixedKeys(m)
               /\ \A n \in DOMAIN PrimaryFields(m) :
                     ~Contains(fs[Resolved], "export const " \o n)
                        => PrimaryFields(m)[n] = <<>>
               /\ \A n \in DOMAIN ScoringFields(m) :
                     (fs[sp] = NoFile \/ ~Contains(fs[sp], "const " \o n))
                        => ScoringFields(m)[n] = <<>>
               /\ fs[Resolved] = EntryOnlyDoc =>
                     /\ m["content_selectors"]["selectors"] = <<"article", "main">>
                     /\ \A n \in DOMAIN PrimaryFields(m) \ {"ENTRY_POINT_ELEMENTS"} :
                           PrimaryFields(m)[n] = <<>>

\* C4: when the primary input file exists the run always completes with
\* exit status 0 and prints a manifest with every fixed key; a sequence
\* field whose declaration is missing from its document is empty, the three
\* scoring fields are empty when scoring.ts does not exist, and the document
\* that only declares ENTRY_POINT_ELEMENTS = ['article', 'main'] gives
\* selectors = <<"article", "main">> and every other field empty.
C4_CompleteManifest ==
    /\ []C4_Finished
    /\ [](fs[Resolved] # NoFile => <>(mpc = "exited" /\ exit_status = 0))

C4_Witness ==
    /\ mpc = "exited"
    /\ fs[Resolved] = EntryOnlyDoc
    /\ fs[ScoringPath(Resolved)] = NoFile
    /\ exit_status = 0
    /\ stdout # <<>>

====
